---- MODULE Spec2Model ----
(***************************************************************************)
(* Model of the nucypher command line (src/cli/main.py): the `stake`       *)
(* command, which drives a participant's stakes on the ledger, and the     *)
(* `simulate` command, which deploys the contracts and spawns a fleet of   *)
(* worker processes under the reactor.                                     *)
(*                                                                         *)
(* One command runs at a time.  A command leaves what it did in a record   *)
(* of the invocation (its inputs, the prompts it asked, the ledger calls   *)
(* it made, how it ended); Exit ends the process and forgets the record,   *)
(* the ledger keeps its state.                                             *)
(*                                                                         *)
(* The ledger (the agents of nucypher.blockchain.eth, which main.py only   *)
(* calls) is modelled at its interface: a call is recorded as submitted,   *)
(* and the ledger takes or refuses it.  The stake command is modelled for  *)
(* a config that is connected to the node's chain.  simulate start works   *)
(* on a tester chain of its own, so a behaviour either runs stake commands *)
(* against the node's chain or runs simulate start.                        *)
(*                                                                         *)
(* main.py reads DEFAULT_SIMULATION_REGISTRY_FILEPATH at lines 477 and 565 *)
(* and binds it nowhere: as the file stands the read raises NameError.     *)
(* The model follows both outcomes of the read (sim.bound), so that the    *)
(* statements after line 477 are covered as well.                          *)
(*                                                                         *)
(* configure and run_ursula work on the files of the machine; they are     *)
(* modelled for a command line that is connected to no chain, and like the *)
(* stake command each runs as one step that leaves its record.             *)
(*                                                                         *)
(* The payload of an AliceConfiguration (nucypher/config/characters.py)    *)
(* is read as one such step.  The book-store example                       *)
(* (examples/drm_book_sharing.py, and its earlier draft                    *)
(* drm_book_sharing.py) is a program of its own: buyers pay the store      *)
(* contract, and the balances are kept in `store`.                         *)
(*                                                                         *)
(* simulate stop and simulate status are commands of their own, run from   *)
(* another shell at any time on the machine of the simulation: each is a   *)
(* process with a config object of its own, and leaves how it ended in     *)
(* sim.stopped and sim.status.                                             *)
(*                                                                         *)
(* Python values whose type the code depends on are records [t, v]:        *)
(* None, a string of decimal digits (what click hands over for an option   *)
(* declared without a type) or an int.                                     *)
(***************************************************************************)
EXTENDS Integers, Sequences, FiniteSets, TLC

\* ---------------------------------------------------------------- bounds
MaxPeriod == 1          \* the ledger clock runs over 0..MaxPeriod
MaxValue == 3           \* integers typed at a value prompt: 0..MaxValue
MaxExtension == 1       \* integers typed at the extension prompt: 0..MaxExtension
MaxNodes == 2           \* simulate start --nodes: 0..MaxNodes
MaxAccounts == 3        \* accounts of the tester chain: 0..MaxAccounts
MaxStops == 2           \* simulate stop is run at most MaxStops times

\* ------------------------------------------------------ program constants
\* imported from nucypher.blockchain.eth.constants, scaled down
MIN_ALLOWED_LOCKED == 2
MIN_LOCKED_PERIODS == 1
MAX_MINTING_PERIODS == 2
\* imported from nucypher.utilities.sandbox.constants, scaled down
DEVELOPMENT_TOKEN_AIRDROP_AMOUNT == 3

\* ------------------------------------------------------------ Python values
PyNone == [t |-> "None", v |-> 0]
PyStr(n) == [t |-> "str", v |-> n]
PyInt(n) == [t |-> "int", v |-> n]

\* bool(x): None and 0 are false; a string of digits is never empty, so true
Truthy(x) == CASE x.t = "None" -> FALSE
               [] x.t = "str" -> TRUE
               [] OTHER -> x.v # 0

\* seq[i] for an int i: 0-based, negative i counts from the end
InRange(seq, i) == -Len(seq) <= i /\ i < Len(seq)
PyItem(seq, i) == IF i >= 0 THEN seq[i + 1] ELSE seq[Len(seq) + i + 1]

\* ------------------------------------------------------------------ ledger
\* config.accounts: the accounts of the connected node, etherbase first
Accounts == <<"a0", "a1">>
Addresses == {Accounts[i] : i \in 1..Len(Accounts)}
NoAddress == "None"

\* the accounts a tester chain can hold, origin first
TesterAccounts == [i \in 1..MaxAccounts |-> "t" \o ToString(i - 1)]
TesterAddresses == {TesterAccounts[i] : i \in 1..MaxAccounts}
AllAddresses == Addresses \cup TesterAddresses

\* token balances of the node's chain: a0 can afford a stake, a1 cannot
Balance == [a \in AllAddresses |-> IF a = "a0" THEN MIN_ALLOWED_LOCKED + 1
                                   ELSE IF a = "a1" THEN MIN_ALLOWED_LOCKED - 1 ELSE 0]

\* stakes the ledger may hold when the command line is started:
\* a0 has none or one, a1 has two
InitialStakes == {[a \in AllAddresses |-> IF a = "a0" THEN mine
                                          ELSE IF a = "a1"
                                          THEN <<[value |-> 3, start |-> 0, end |-> 1],
                                                 [value |-> 2, start |-> 0, end |-> 2]>>
                                          ELSE <<>>] :
                  mine \in {<<>>, <<[value |-> 3, start |-> 0, end |-> 2]>>}}

VARIABLES
    chain,      \* the chain the ledger variables describe: the "node"'s, the "tester" chain of simulate,
                \* or "none": the command line works on the files of the machine only
    files,      \* the trees of configuration files that exist on disk
    store,      \* the book store of the example: the price, the balances, the last payment
    stakes,     \* ledger: address -> sequence of stakes [value, start, end], index = position
    balance,    \* ledger: address -> tokens
    period,     \* ledger: the current period
    confirmed,  \* ledger: the addresses whose activity is confirmed for the current period
    pc,         \* "shell": no command runs; "ended": a command has ended; else the place in simulate
    inv,        \* the record of the invocation that runs or has ended
    sim         \* simulate start: its arguments, the registry file and the worker processes

ledger == <<stakes, balance, period, confirmed>>
vars == <<chain, files, store, stakes, balance, period, confirmed, pc, inv, sim>>

\* ------------------------------------------------------- ledger operations
\* MinerAgent.get_all_stakes
get_all_stakes(stk, a) == stk[a]

\* NucypherTokenAgent.get_balance
get_balance(bal, a) == bal[a]

\* MinerAgent.deposit_tokens: the ledger takes the deposit when the amount and
\* the lock time are within the protocol's bounds, and reverts otherwise
DepositAccepted(bal, a, amount, periods) ==
    /\ MIN_ALLOWED_LOCKED <= amount /\ amount <= get_balance(bal, a)
    /\ MIN_LOCKED_PERIODS <= periods /\ periods <= MAX_MINTING_PERIODS

deposit_tokens(stk, bal, now, a, amount, periods) ==
    IF DepositAccepted(bal, a, amount, periods)
    THEN [stk EXCEPT ![a] = Append(@, [value |-> amount, start |-> now, end |-> now + periods])]
    ELSE stk

\* MinerAgent.confirm_activity: once per address and period
confirm_activity(conf, a) == conf \cup {a}

\* MinerAgent.divide_stake: takes integers only; the stake at the index
\* continues with the new value and the extended end, the rest is a new stake
DivideAccepted(stk, a, index, value, periods) ==
    /\ index.t = "int" /\ value.t = "int"
    /\ 0 <= index.v /\ index.v < Len(stk[a])
    /\ 0 < value.v /\ value.v <= stk[a][index.v + 1].value
    /\ periods >= 0

divide_stake(stk, a, index, value, periods) ==
    IF DivideAccepted(stk, a, index, value, periods)
    THEN LET old == stk[a][index.v + 1]
             continuing == [value |-> value.v, start |-> old.start, end |-> old.end + periods]
             rest == [value |-> old.value - value.v, start |-> old.start, end |-> old.end]
         IN  [stk EXCEPT ![a] = Append([@ EXCEPT ![index.v + 1] = continuing], rest)]
    ELSE stk

\* ------------------------------------------------------ invocation record
\* what a command asked and did, in order
Confirm(q, answer) == [e |-> "confirm", what |-> q, ok |-> answer, args |-> <<>>]
Echo(what, args) == [e |-> "echo", what |-> what, ok |-> TRUE, args |-> args]
Call(f, accepted, args) == [e |-> "call", what |-> f, ok |-> accepted, args |-> args]
Spawn(ok, argv) == [e |-> "spawn", what |-> "spawnProcess", ok |-> ok, args |-> argv]

NoInput == [address |-> NoAddress, index |-> PyNone, value |-> PyNone,
            selection |-> 0, stake_value |-> 0, duration |-> 0,
            chosen |-> PyNone, target_value |-> 0, extension |-> 0]

Blank == [cmd |-> "none", action |-> "none", address |-> NoAddress, index |-> PyNone,
          in |-> NoInput, events |-> <<>>, outcome |-> "none", pre |-> <<>>]

Ended(r, how) == [r EXCEPT !.outcome = how]
Did(r, es) == [r EXCEPT !.events = @ \o es]

\* the roots of the configuration trees: the default one and the one of
\* --config-root; a temporary configuration has a root of its own
ConfigRoots == {"default", "custom"}

\* simulate status has not run
NoStatus == [outcome |-> "none", message |-> "none"]

\* simulate start has not run, nor simulate stop or simulate status.
\* fleet holds the processes spawned; ursula_proc is the position in the fleet
\* of the handle the variable of that name holds (0: unbound); handles are the
\* positions of the handles kept in a collection of the config
NoSim == [federated_only |-> FALSE, nodes |-> 0, bound |-> FALSE, accounts |-> <<>>, step |-> 0,
          done |-> 0, fleet |-> <<>>, registry |-> FALSE, reactor |-> "no",
          ursula_proc |-> 0, handles |-> <<>>, stopped |-> <<>>, status |-> NoStatus]

\* the book store of the examples: the two scripts, the people and their
\* balances, the price of the book, the payments tried
Examples == {"examples/drm_book_sharing.py", "drm_book_sharing.py"}
Buyers == {"first_buyer", "second_buyer"}
People == Buyers \cup {"author"}
BuyerBalance == 100
AuthorBalance == 0
BookPrice == 10
FirstPayment == 1
MaxOff == 1
MaxPayments == 2
Amounts == {FirstPayment} \cup ((BookPrice - MaxOff)..(BookPrice + MaxOff))
NoPayment == [sender |-> "none", amount |-> 0, hook |-> "none", granted |-> "none"]
NoStore == [example |-> "none", price |-> 0, balance |-> [who \in People |-> 0],
            payments |-> 0, last |-> NoPayment]
BookStore(example) ==
    [example |-> example, price |-> BookPrice,
     balance |-> [who \in People |-> IF who \in Buyers THEN BuyerBalance ELSE AuthorBalance],
     payments |-> 0, last |-> NoPayment]

\* the command line works against the node's chain, whatever stakes it holds,
\* or it is about to simulate on a tester chain of its own, or it works on the
\* configuration files, whichever of them exist; or one of the book-store
\* scripts is run
Init ==
    /\ \/ chain = "node" /\ stakes \in InitialStakes /\ balance = Balance /\ files = {}
       \/ /\ chain = "tester"
          /\ stakes = [a \in AllAddresses |-> <<>>]
          /\ balance = [a \in AllAddresses |-> 0]
          /\ files = {}
       \/ /\ chain = "none"
          /\ stakes = [a \in AllAddresses |-> <<>>]
          /\ balance = [a \in AllAddresses |-> 0]
          /\ files \in SUBSET ConfigRoots
       \/ /\ chain = "store"
          /\ stakes = [a \in AllAddresses |-> <<>>]
          /\ balance = [a \in AllAddresses |-> 0]
          /\ files = {}
    /\ store \in (IF chain = "store" THEN {BookStore(e) : e \in Examples} ELSE {NoStore})
    /\ period = 0
    /\ confirmed = {}
    /\ pc = "shell"
    /\ inv = Blank
    /\ sim = NoSim

\* the ledger's clock moves on between commands
Tick ==
    /\ chain = "node"
    /\ pc = "shell"
    /\ period < MaxPeriod
    /\ period' = period + 1
    /\ confirmed' = {}
    /\ UNCHANGED <<chain, store, files, stakes, balance, pc, inv, sim>>

\* the command's process ends
Exit ==
    /\ chain \in {"node", "none"}
    /\ pc = "ended"
    /\ pc' = "shell"
    /\ inv' = Blank
    /\ UNCHANGED <<chain, store, files, ledger, sim>>

\* ------------------------------------------------------------ stake command
\* what can be typed at the prompts and given as options
Selections == 0..Len(Accounts)              \* "Enter 0-{len(accounts)}"
StakeValues == 0..MaxValue
Durations == 0..(MAX_MINTING_PERIODS + 1)
Extensions == 0..MaxExtension
IndexPrompts == -1..2
IndexOptions == {PyNone, PyStr(0)}
ValueOptions == {PyNone, PyStr(1)}
AddressOptions == Addresses \cup {NoAddress}

\* the command's head: without --address the accounts are listed, which
\* rebinds index to the last account's position, and one is selected
StakeHead(action, address, index, value, selection) ==
    LET r == [Blank EXCEPT !.cmd = "stake", !.action = action,
                           !.in = [NoInput EXCEPT !.address = address, !.index = index, !.value = value]]
    IN  IF address # NoAddress
        THEN [r EXCEPT !.address = address, !.index = index, !.pre = stakes[address]]
        ELSE LET listed == IF Len(Accounts) > 0 THEN PyInt(Len(Accounts) - 1) ELSE index
                 r1 == [r EXCEPT !.index = listed, !.in.selection = selection]
             IN  IF InRange(Accounts, selection)
                 THEN [r1 EXCEPT !.address = PyItem(Accounts, selection),
                                 !.pre = stakes[PyItem(Accounts, selection)]]
                 ELSE Ended(r1, "IndexError")

Running(r) == r.outcome = "none"

\* a command ends: its record and the ledger it leaves
Finish(r, stk, conf) ==
    /\ chain = "node"
    /\ pc = "shell"
    /\ pc' = "ended"
    /\ inv' = r
    /\ stakes' = stk
    /\ confirmed' = conf
    /\ UNCHANGED <<chain, store, files, balance, period, sim>>

\* the prompts of the head are asked only without --address
SelectionsFor(address) == IF address = NoAddress THEN Selections ELSE {0}

\* stake list
StakeList ==
    \E address \in AddressOptions : \E selection \in SelectionsFor(address) :
        LET r == StakeHead("list", address, PyNone, PyNone, selection)
        IN  Finish(IF Running(r) THEN Ended(r, "ok") ELSE r, stakes, confirmed)

\* the check of the existing stakes left out
HasStakeNever(stk, a) == FALSE

\* stake init: "There is an existing stake"
HasStake(stk, a) == Len(get_all_stakes(stk, a)) > 0

\* a lock time one period longer than the duration typed in
DepositArgsLonger(value, duration) == <<value, duration + 1>>

\* stake init: what is deposited of the value and the duration typed in
DepositArgs(value, duration) == <<value, duration>>

\* stake init, after the head
InitBody(r) ==
    \E stage \in BOOLEAN :
        LET a == r.address
            asked == Did(r, <<Confirm("Stage a new stake?", stage)>>)
        IN  IF ~stage THEN Finish(Ended(asked, "Abort"), stakes, confirmed)
            ELSE IF HasStake(stakes, a) THEN Finish(Ended(asked, "RuntimeError"), stakes, confirmed)
            ELSE \E value \in StakeValues, duration \in Durations, correct \in BOOLEAN :
                LET start_period == period
                    end_period == start_period + duration
                    staged == Did([asked EXCEPT !.in.stake_value = value, !.in.duration = duration],
                                  <<Echo("Staged Stake", <<value, duration, start_period, end_period>>),
                                    Confirm("Is this correct?", correct)>>)
                    args == DepositArgs(value, duration)
                    accepted == DepositAccepted(balance, a, args[1], args[2])
                    deposited == Did(staged, <<Call("deposit_tokens", accepted, args)>>)
                IN  IF ~correct THEN Finish(Ended(staged, "NotImplementedError"), stakes, confirmed)
                    ELSE IF ~accepted THEN Finish(Ended(deposited, "LedgerError"), stakes, confirmed)
                    ELSE \E spawned \in BOOLEAN :
                        Finish(Ended(Did(deposited, <<Spawn(spawned, <<"run_ursula">>)>>),
                                     IF spawned THEN "ok" ELSE "OSError"),
                               deposit_tokens(stakes, balance, period, a, args[1], args[2]), confirmed)

StakeInit ==
    \E address \in AddressOptions : \E selection \in SelectionsFor(address) :
        LET r == StakeHead("init", address, PyNone, PyNone, selection)
        IN  IF Running(r) THEN InitBody(r) ELSE Finish(r, stakes, confirmed)

\* stake resume
StakeResume ==
    \E address \in AddressOptions : \E selection \in SelectionsFor(address) :
        LET r == StakeHead("resume", address, PyNone, PyNone, selection)
        IN  IF Running(r)
            THEN \E spawned \in BOOLEAN :
                    Finish(Ended(Did(r, <<Spawn(spawned, <<"run_ursula">>)>>),
                                 IF spawned THEN "ok" ELSE "OSError"), stakes, confirmed)
            ELSE Finish(r, stakes, confirmed)

\* the check for stakes left out
NoStakesNever(stk, a) == FALSE

\* stake confirm-activity: "There are no active stakes"
NoStakes(stk, a) == Len(get_all_stakes(stk, a)) = 0

\* stake confirm-activity, after the head
ConfirmActivityBody(r) ==
    LET a == r.address
    IN  IF NoStakes(stakes, a)
        THEN Finish(Ended(r, "RuntimeError"), stakes, confirmed)
        ELSE Finish(Ended(Did(r, <<Call("confirm_activity", TRUE, <<a>>)>>), "ok"),
                    stakes, confirm_activity(confirmed, a))

StakeConfirmActivity ==
    \E address \in AddressOptions : \E selection \in SelectionsFor(address) :
        LET r == StakeHead("confirm-activity", address, PyNone, PyNone, selection)
        IN  IF Running(r) THEN ConfirmActivityBody(r) ELSE Finish(r, stakes, confirmed)

\* stake divide: the arguments of the ledger call, of the index in use, the
\* --value option and the two integers typed in
DivideArgs(index, value, target_value, extension) == <<index, value, extension>>

\* stake divide, after the head
DivideBody(r) ==
    LET a == r.address
        mine == get_all_stakes(stakes, a)
    IN  IF Len(mine) = 0 THEN Finish(Ended(r, "RuntimeError"), stakes, confirmed)
        ELSE \E chosen \in (IF Truthy(r.index) THEN {0} ELSE IndexPrompts) :
             \E target_value \in StakeValues \ {0}, extension \in Extensions :
                LET index == IF Truthy(r.index) THEN r.index ELSE PyInt(chosen)
                    prompted == [r EXCEPT !.index = index, !.in.target_value = target_value,
                                          !.in.extension = extension,
                                          !.in.chosen = IF Truthy(r.index) THEN PyNone ELSE PyInt(chosen)]
                IN  IF index.t # "int" THEN Finish(Ended(prompted, "TypeError"), stakes, confirmed)
                    ELSE IF ~InRange(mine, index.v) THEN Finish(Ended(prompted, "IndexError"), stakes, confirmed)
                    ELSE \E correct \in BOOLEAN :
                        LET shown == Did(prompted,
                                         <<Echo("Current Stake", <<PyItem(mine, index.v), target_value,
                                                                   target_value + extension>>),
                                           Confirm("Is this correct?", correct)>>)
                            args == DivideArgs(index, r.in.value, target_value, extension)
                            accepted == DivideAccepted(stakes, a, args[1], args[2], args[3])
                            called == Did(shown, <<Call("divide_stake", accepted, args)>>)
                        IN  IF ~correct THEN Finish(Ended(shown, "Abort"), stakes, confirmed)
                            ELSE IF ~accepted THEN Finish(Ended(called, "LedgerError"), stakes, confirmed)
                            ELSE Finish(Ended(called, "ok"),
                                        divide_stake(stakes, a, args[1], args[2], args[3]), confirmed)

StakeDivide ==
    \E address \in AddressOptions : \E selection \in SelectionsFor(address) :
    \E index \in IndexOptions, value \in ValueOptions :
        LET r == StakeHead("divide", address, index, value, selection)
        IN  IF Running(r) THEN DivideBody(r) ELSE Finish(r, stakes, confirmed)

\* stake collect-reward
StakeCollectReward ==
    \E address \in AddressOptions : \E selection \in SelectionsFor(address) :
        LET r == StakeHead("collect-reward", address, PyNone, PyNone, selection)
        IN  Finish(IF Running(r) THEN Ended(r, "NotImplementedError") ELSE r, stakes, confirmed)

\* the raise after the confirmation left out: the command returns
AbortEndsReturning(sure) == IF sure THEN "ok" ELSE "Abort"

\* stake abort: click.confirm(abort=True) raises Abort on "no", then the raise
AbortEnds(sure) == IF sure THEN "NotImplementedError" ELSE "Abort"

\* stake abort
StakeAbort ==
    \E address \in AddressOptions : \E selection \in SelectionsFor(address) :
        LET r == StakeHead("abort", address, PyNone, PyNone, selection)
        IN  IF Running(r)
            THEN \E sure \in BOOLEAN :
                    Finish(Ended(Did(r, <<Confirm("Are you sure you want to abort the staking process?", sure)>>),
                                 AbortEnds(sure)), stakes, confirmed)
            ELSE Finish(r, stakes, confirmed)

\* ------------------------------------------------------- configure command
DestroyPrompt == "Permanently destroy all nucypher files, configurations, known nodes, certificates and keys?"
InitializePrompt == "Initialize new nucypher configuration?"

\* a command that works on the files of the machine ends: its record and the
\* files it leaves
Return(r, fs) ==
    /\ chain = "none"
    /\ pc = "shell"
    /\ pc' = "ended"
    /\ inv' = r
    /\ files' = fs
    /\ UNCHANGED <<chain, store, ledger, sim>>

\* the command returns unless it has raised
Returned(r) == IF Running(r) THEN Ended(r, "ok") ELSE r

\* the node configuration of the options: --config-root first, then --temp,
\* then --config-file, then the default one; the root of its tree
RootsFor(config_root, temp, config_file) ==
    IF config_root THEN {"custom"}
    ELSE IF temp THEN {"temporary"}
    ELSE IF config_file THEN ConfigRoots
    ELSE {"default"}

\* NodeConfiguration.from_configuration_file may raise, the constructor does not
FromFile(config_root, temp, config_file) == ~config_root /\ ~temp /\ config_file

\* __destroy without the check of --temp
DestroyTemporary(r, fs, sure) ==
    IF ~sure THEN [r |-> Ended(Did(r, <<Confirm(DestroyPrompt, FALSE)>>), "Abort"), fs |-> fs]
    ELSE [r |-> Did(r, <<Confirm(DestroyPrompt, TRUE), Call("shutil.rmtree", TRUE, <<r.in.root>>),
                         Echo("Deleted configuration files", <<r.in.root>>)>>),
          fs |-> fs \ {r.in.root}]

\* __destroy(configuration): the record and the files after it
Destroy(r, fs, sure) ==
    IF r.in.temp THEN [r |-> Ended(r, "ConfigurationError"), fs |-> fs]
    ELSE IF ~sure THEN [r |-> Ended(Did(r, <<Confirm(DestroyPrompt, FALSE)>>), "Abort"), fs |-> fs]
    ELSE [r |-> Did(r, <<Confirm(DestroyPrompt, TRUE), Call("shutil.rmtree", TRUE, <<r.in.root>>),
                         Echo("Deleted configuration files", <<r.in.root>>)>>),
          fs |-> fs \ {r.in.root}]

\* __initialize(configuration): the record and the files after it;
\* write_defaults may raise
Initialize(r, fs, sure, written) ==
    LET told == IF r.in.temp THEN Did(r, <<Echo("Using temporary storage area", <<>>)>>) ELSE r
    IN  IF ~sure THEN [r |-> Ended(Did(told, <<Confirm(InitializePrompt, FALSE)>>), "Abort"), fs |-> fs]
        ELSE IF ~written
        THEN [r |-> Ended(Did(told, <<Confirm(InitializePrompt, TRUE),
                                      Call("write_defaults", FALSE, <<r.in.root>>)>>), "ConfigurationError"),
              fs |-> fs]
        ELSE [r |-> Did(told, <<Confirm(InitializePrompt, TRUE), Call("write_defaults", TRUE, <<r.in.root>>),
                                Echo("Created configuration files", <<r.in.root>>)>>),
              fs |-> fs \cup {r.in.root}]

\* configure init
ConfigureInit(r) ==
    \E sure \in BOOLEAN, written \in BOOLEAN :
        LET done == Initialize(r, files, sure, written)
        IN  Return(Returned(done.r), done.fs)

\* configure destroy
ConfigureDestroy(r) ==
    \E sure \in BOOLEAN :
        LET done == Destroy(r, files, sure)
        IN  Return(Returned(done.r), done.fs)

\* configure reset: __destroy, then __initialize
ConfigureReset(r) ==
    \E sure \in BOOLEAN :
        LET destroyed == Destroy(r, files, sure)
        IN  IF ~Running(destroyed.r) THEN Return(destroyed.r, destroyed.fs)
            ELSE \E again \in BOOLEAN, written \in BOOLEAN :
                    LET done == Initialize(destroyed.r, destroyed.fs, again, written)
                    IN  Return(Returned(done.r), done.fs)

\* configure validate: the checks asked for, InvalidConfiguration caught, the
\* result echoed in the finally clause
ConfigureValidate(r) ==
    \E filesystem \in BOOLEAN :
        IF ~filesystem /\ ~r.in.config_file
        THEN Return(Ended(Did(r, <<Echo("Valid", <<r.in.root>>)>>), "ok"), files)
        ELSE \E check \in {"valid", "invalid", "InvalidConfiguration", "OSError"} :
                Return(Ended(Did(r, <<Echo(IF check \in {"valid", "OSError"} THEN "Valid" ELSE "Invalid",
                                           <<r.in.root>>)>>),
                             IF check = "OSError" THEN "OSError" ELSE "ok"), files)

\* nucypher-cli configure <action>
Configure ==
    \E action \in {"init", "destroy", "reset", "validate"},
       config_root \in BOOLEAN, temp \in BOOLEAN, config_file \in BOOLEAN :
    \E root \in RootsFor(config_root, temp, config_file),
       made \in (IF FromFile(config_root, temp, config_file) THEN BOOLEAN ELSE {TRUE}) :
        LET r == [Blank EXCEPT !.cmd = "configure", !.action = action, !.pre = files,
                               !.in = [temp |-> temp, config_root |-> config_root,
                                       config_file |-> config_file, root |-> root]]
        IN  IF ~made THEN Return(Ended(r, "ConfigurationError"), files)
            ELSE CASE action = "init" -> ConfigureInit(r)
                   [] action = "destroy" -> ConfigureDestroy(r)
                   [] action = "reset" -> ConfigureReset(r)
                   [] action = "validate" -> ConfigureValidate(r)

\* ------------------------------------------------------ run_ursula command
\* the steps of the try block: staking only for a node that is not federated
UrsulaSteps(federated_only) ==
    <<"produce", "get_deployer.run">> \o (IF ~federated_only THEN <<"stake">> ELSE <<>>)

\* the first n steps done; the step after them, if there is one, has raised
Stepped(steps, n) ==
    [i \in 1..n |-> Call(steps[i], TRUE, <<>>)]
    \o (IF n < Len(steps) THEN <<Call(steps[n + 1], FALSE, <<>>)>> ELSE <<>>)

\* the cleanup after the steps, outside a finally clause
CleanedUnlessRaised(es, raised, cleaned) ==
    IF raised THEN es ELSE es \o <<Call("cleanup", cleaned, <<>>)>>

\* try: ... finally: ursula_config.cleanup(); the cleanup may raise as well
Cleaned(es, raised, cleaned) == es \o <<Call("cleanup", cleaned, <<>>)>>

\* the configuration files a caller may name; a caller that names none
\* passes None
DEFAULT_CONFIG_FILE_LOCATION == "DEFAULT_CONFIG_FILE_LOCATION"
NoFilepath == "None"
NotParsed == "not parsed"
ConfigFiles == {NoFilepath, DEFAULT_CONFIG_FILE_LOCATION, "ursula.config"}

\* UrsulaConfiguration.from_configuration_file: the filepath handed to
\* parse_ursula_config,
\*     filepath = filepath if filepath is None else DEFAULT_CONFIG_FILE_LOCATION
ParsedFilepath(filepath) ==
    IF filepath = NoFilepath THEN filepath ELSE DEFAULT_CONFIG_FILE_LOCATION

\* `if config_file:` the configuration is that of the file, parsed
UrsulaConfigParsed(config_file) ==
    IF config_file # NoFilepath THEN ParsedFilepath(config_file) ELSE NotParsed

\* nucypher-cli run_ursula: the configuration, of --config-file or of the
\* options, then the steps; a node of a configuration file is federated or
\* not as the file says
RunUrsula ==
    \E dev \in BOOLEAN, config_file \in ConfigFiles, federated_only \in BOOLEAN, made \in BOOLEAN :
        LET r == [Blank EXCEPT !.cmd = "run_ursula", !.pre = files,
                               !.in = [dev |-> dev, config_file |-> config_file,
                                       parsed |-> UrsulaConfigParsed(config_file),
                                       federated_only |-> federated_only, made |-> made,
                                       node_federated_only |-> federated_only]]
        IN  IF ~made THEN Return(Ended(r, "ConfigurationError"), files)
            ELSE \E of_node \in (IF config_file # NoFilepath THEN BOOLEAN ELSE {federated_only}) :
                 \E n \in 0..Len(UrsulaSteps(of_node)), cleaned \in BOOLEAN :
                    LET steps == UrsulaSteps(of_node)
                        raised == n < Len(steps)
                        es == Cleaned(Stepped(steps, n), raised, cleaned)
                    IN  Return(Ended(Did([r EXCEPT !.in.node_federated_only = of_node], es),
                                     IF ~cleaned THEN "CleanupError"
                                     ELSE IF raised THEN "UrsulaError" ELSE "ok"),
                               files)

\* ------------------------------------------------------ AliceConfiguration
\* dict.update: the entries of the other dict are added, over those of the
\* same key
Update(d, other) ==
    [k \in DOMAIN d \cup DOMAIN other |-> IF k \in DOMAIN other THEN other[k] ELSE d[k]]

\* the agent an AliceConfiguration is constructed with, None by default, and
\* the payloads of the node configuration under it
PolicyAgents == {"None", "PolicyAgent"}
BasePayloads == [{"temp", "federated_only"} -> {"False", "True"}]

\* AliceConfiguration.payload: alice_payload is made of the agent and updated
\* with the base payload; the dict returned is base_payload
AlicePayloadOf(policy_agent, base_payload) ==
    LET alice_payload == Update([k \in {"policy_agent"} |-> policy_agent], base_payload)
    IN  base_payload

\* a configuration of Alice is made and its payload read
AlicePayload ==
    \E policy_agent \in PolicyAgents, base_payload \in BasePayloads :
        Return(Ended([Blank EXCEPT !.cmd = "AliceConfiguration.payload", !.pre = files,
                                   !.in = [policy_agent |-> policy_agent,
                                           base_payload |-> base_payload,
                                           payload |-> AlicePayloadOf(policy_agent, base_payload)]],
                     "ok"),
               files)

\* -------------------------------------------------------- book-store example
\* a payment: fallback(sender, amount), and how purchase_event_hook ended if
\* it was called; deliver_purchase grants to first_buyer, whoever paid
Payment(sender, amount, hook) ==
    [sender |-> sender, amount |-> amount, hook |-> hook,
     granted |-> IF hook = "none" THEN "none" ELSE "first_buyer"]

\* a contract that takes whatever it is paid
FallbackAnyAmount(s, sender, amount, hook) ==
    IF s.example = "examples/drm_book_sharing.py"
    THEN [s EXCEPT !.balance[sender] = @ - amount,
                   !.balance["author"] = @ + amount,
                   !.last = Payment(sender, amount, hook)]
    ELSE [s EXCEPT !.last = Payment(sender, amount, "none")]

\* BookStoreEthContract.fallback: the example's contract takes the price and
\* calls the hook; the earlier draft's contract prints the payment, no more
Fallback(s, sender, amount, hook) ==
    IF s.example = "examples/drm_book_sharing.py" /\ amount = s.price
    THEN [s EXCEPT !.balance[sender] = @ - amount,
                   !.balance["author"] = @ + amount,
                   !.last = Payment(sender, amount, hook)]
    ELSE [s EXCEPT !.last = Payment(sender, amount, "none")]

\* ETHAccount.send_eth_to: a buyer pays the contract; the hook returns the
\* delivery or raises
SendEthTo ==
    /\ chain = "store"
    /\ store.payments < MaxPayments
    /\ \E sender \in Buyers, amount \in Amounts, hook \in {"returned", "raised"} :
           store' = [Fallback(store, sender, amount, hook) EXCEPT !.payments = @ + 1]
    /\ UNCHANGED <<chain, files, ledger, pc, inv, sim>>

\* ---------------------------------------------------------- simulate start
\* the attributes the command line's config object has: those of __init__
\* and those the cli group sets
ConfigAttributes == {"node_config", "accounts", "blockchain", "registry_filepath",
                     "token_agent", "miner_agent", "policy_agent", "verbose", "config_filepath"}

StartPort == 8787

\* the escrow deployed before the token
DeployPlanEscrowFirst == <<"MinerEscrow.arm", "MinerEscrow.deploy", "MinerEscrow.make_agent",
                           "NucypherToken.arm", "NucypherToken.deploy", "NucypherToken.make_agent",
                           "PolicyManager.arm", "PolicyManager.deploy", "PolicyManager.make_agent">>

\* the deployments, in the order of the statements
DeployPlan == <<"NucypherToken.arm", "NucypherToken.deploy", "NucypherToken.make_agent",
                "MinerEscrow.arm", "MinerEscrow.deploy", "MinerEscrow.make_agent",
                "PolicyManager.arm", "PolicyManager.deploy", "PolicyManager.make_agent">>

\* origin, *everyone_else = accounts
Origin(s) == Head(s.accounts)
EveryoneElse(s) == Tail(s.accounts)

\* the addresses to simulate
NotImplemented == <<"NotImplemented">>
SimAddresses(s) == IF ~s.federated_only THEN EveryoneElse(s) ELSE NotImplemented
Iterable(x) == x # NotImplemented

\* str.format: each "{}" takes the next argument, arguments left over are dropped
RECURSIVE Format(_, _)
Format(tokens, args) ==
    IF tokens = <<>> THEN <<>>
    ELSE IF Head(tokens) = "{}"
         THEN <<Head(args)>> \o Format(Tail(tokens), Tail(args))
         ELSE <<Head(tokens)>> \o Format(Tail(tokens), args)

\* the worker's rest port and db name, of its position in the fleet
RestPort(i) == StartPort + i
DbName(rest_port) == "sim-" \o ToString(rest_port)

\* the worker's command line
CliExec == "BASE_DIR/cli/main.py"
PythonExec == "python"
ProcParams(federated_only, rest_port, db_name, sim_address) ==
    Format(<<"python3", "{}", "run_ursula", "--rest-port", "{}", "--db-name", "{}">>,
           <<PythonExec, CliExec, ToString(rest_port), db_name>>)
    \o (IF federated_only THEN <<"--federated-only">> ELSE <<"--checksum-address", sim_address>>)

\* a step of simulate start: the place it goes to and what it did
SimStep(to, es, s) ==
    /\ pc' = to
    /\ inv' = Did(inv, es)
    /\ sim' = s

\* simulate start ends by an exception
SimRaise(how, es, s) ==
    /\ pc' = "ended"
    /\ inv' = Ended(Did(inv, es), how)
    /\ sim' = s

\* the chain connected to and the contracts deployed federated-only or not
FirstStepConnects(federated_only) == "connect"

\* if not federated_only: the blockchain connection and action; else the swarm
FirstStep(federated_only) == IF ~federated_only THEN "connect" ELSE "swarm"

\* simulate start; whether DEFAULT_SIMULATION_REGISTRY_FILEPATH, which main.py
\* binds nowhere, is bound in the namespace the command runs in
SimulateStart ==
    /\ chain = "tester"
    /\ pc = "shell"
    /\ \E nodes \in 0..MaxNodes, federated_only \in BOOLEAN, bound \in BOOLEAN :
        /\ sim' = [NoSim EXCEPT !.nodes = nodes, !.federated_only = federated_only, !.bound = bound,
                                !.stopped = sim.stopped, !.status = sim.status]
        /\ inv' = [Blank EXCEPT !.cmd = "simulate", !.action = "start"]
        /\ pc' = FirstStep(federated_only)
    /\ UNCHANGED <<chain, store, files, ledger>>

\* the tester chain and its accounts, the ether airdrop
SimConnect ==
    /\ pc = "connect"
    /\ \E k \in 0..MaxAccounts :
        LET s == [sim EXCEPT !.accounts = SubSeq(TesterAccounts, 1, k)]
        IN  IF k = 0 THEN SimRaise("ValueError", <<>>, s)
            ELSE SimStep("confirm", <<Call("ether_airdrop", TRUE, <<>>)>>, s)
    /\ UNCHANGED <<chain, store, files, ledger>>

\* the confirmation asked without abort=True
SimConfirmDeployAnyway ==
    /\ pc = "confirm"
    /\ \E answer \in BOOLEAN :
        SimStep("deploy", <<Confirm("Deploy all nucypher contracts?", answer)>>, sim)
    /\ UNCHANGED <<chain, store, files, ledger>>

\* "Deploy all nucypher contracts?"
SimConfirmDeploy ==
    /\ pc = "confirm"
    /\ \E answer \in BOOLEAN :
        IF answer THEN SimStep("deploy", <<Confirm("Deploy all nucypher contracts?", answer)>>, sim)
        ELSE SimRaise("Abort", <<Confirm("Deploy all nucypher contracts?", answer)>>, sim)
    /\ UNCHANGED <<chain, store, files, ledger>>

\* the next deployment step; the deployer's call may raise
SimDeploy ==
    /\ pc = "deploy"
    /\ \E ok \in BOOLEAN :
        LET step == DeployPlan[sim.step + 1]
            s == [sim EXCEPT !.step = @ + 1]
        IN  IF ~ok THEN SimRaise("DeployError", <<Call(step, FALSE, <<>>)>>, sim)
            ELSE SimStep(IF s.step = Len(DeployPlan) THEN "airdrop" ELSE "deploy",
                         <<Call(step, TRUE, <<>>)>>, s)
    /\ UNCHANGED <<chain, store, files, ledger>>

\* a token airdrop that failed taken for done
SimTokenAirdropUnchecked ==
    /\ pc = "airdrop"
    /\ \E ok \in BOOLEAN :
        IF ok
        THEN /\ SimStep("commit", <<Call("token_airdrop", TRUE, EveryoneElse(sim))>>, sim)
             /\ balance' = [a \in AllAddresses |->
                               IF \E n \in 1..Len(EveryoneElse(sim)) : EveryoneElse(sim)[n] = a
                               THEN balance[a] + DEVELOPMENT_TOKEN_AIRDROP_AMOUNT ELSE balance[a]]
        ELSE /\ SimStep("commit", <<Call("token_airdrop", FALSE, EveryoneElse(sim))>>, sim)
             /\ UNCHANGED balance
    /\ UNCHANGED <<chain, store, files, stakes, period, confirmed>>

\* token_airdrop to everyone but the origin
SimTokenAirdrop ==
    /\ pc = "airdrop"
    /\ \E ok \in BOOLEAN :
        IF ok
        THEN /\ SimStep("commit", <<Call("token_airdrop", TRUE, EveryoneElse(sim))>>, sim)
             /\ balance' = [a \in AllAddresses |->
                               IF \E n \in 1..Len(EveryoneElse(sim)) : EveryoneElse(sim)[n] = a
                               THEN balance[a] + DEVELOPMENT_TOKEN_AIRDROP_AMOUNT ELSE balance[a]]
        ELSE /\ SimRaise("AirdropError", <<Call("token_airdrop", FALSE, EveryoneElse(sim))>>, sim)
             /\ UNCHANGED balance
    /\ UNCHANGED <<chain, store, files, stakes, period, confirmed>>

\* registry.commit(filepath=DEFAULT_SIMULATION_REGISTRY_FILEPATH)
SimCommitRegistry ==
    /\ pc = "commit"
    /\ IF ~sim.bound THEN SimRaise("NameError", <<>>, sim)
       ELSE SimStep("swarm", <<Call("registry.commit", TRUE, <<>>)>>, [sim EXCEPT !.registry = TRUE])
    /\ UNCHANGED <<chain, store, files, ledger>>

\* enumerate(sim_addresses, start=start_port)
SimEnumerate ==
    /\ pc = "swarm"
    /\ IF Iterable(SimAddresses(sim)) THEN SimStep("loop", <<>>, sim)
       ELSE SimRaise("TypeError", <<>>, sim)
    /\ UNCHANGED <<chain, store, files, ledger>>

\* the worker a turn of the loop spawns
Worker(federated_only, i, sim_address) ==
    [rest_port |-> RestPort(i), db_name |-> DbName(RestPort(i)), address |-> sim_address,
     argv |-> ProcParams(federated_only, RestPort(i), DbName(RestPort(i)), sim_address),
     state |-> "spawned", signalled |-> FALSE]

\* the process spawned before the turn's stake is initialised
SimSpawnFirst(es, w) ==
    \E spawned \in BOOLEAN :
        IF spawned
        THEN SimStep("loop", <<Spawn(TRUE, w.argv)>> \o es,
                     [sim EXCEPT !.done = @ + 1, !.fleet = Append(@, w), !.ursula_proc = Len(sim.fleet) + 1])
        ELSE SimRaise("OSError", <<Spawn(FALSE, w.argv)>> \o es, sim)

\* ursula_proc = reactor.spawnProcess(...) at the end of a turn, after what the
\* turn did before (es); it may raise.  The handle is bound to ursula_proc, which
\* the next turn binds anew; nothing adds it to a collection
SimSpawn(es, w) ==
    \E spawned \in BOOLEAN :
        IF spawned
        THEN SimStep("loop", es \o <<Spawn(TRUE, w.argv)>>,
                     [sim EXCEPT !.done = @ + 1, !.fleet = Append(@, w), !.ursula_proc = Len(sim.fleet) + 1])
        ELSE SimRaise("OSError", es \o <<Spawn(FALSE, w.argv)>>, sim)

\* random.randint(0, balance)
ValueDrawsFromZero(bal) == 0..bal

\* random.randint(min_stake, balance): any integer of the range, ValueError
\* when the range is empty
ValueDraws(bal) == MIN_ALLOWED_LOCKED..bal

\* random.randint(min_locktime, max_locktime)
PeriodDraws == MIN_LOCKED_PERIODS..MAX_MINTING_PERIODS

\* a turn of the loop: the worker's parameters, its stake unless federated, the spawn
SimSpawnNode ==
    /\ pc = "loop"
    /\ sim.done < Len(SimAddresses(sim))
    /\ LET a == SimAddresses(sim)[sim.done + 1]
           w == Worker(sim.federated_only, sim.done, a)
       IN  IF sim.federated_only THEN SimSpawn(<<>>, w) /\ UNCHANGED stakes
           ELSE IF ValueDraws(get_balance(balance, a)) = {}
           THEN SimRaise("ValueError", <<>>, sim) /\ UNCHANGED stakes
           ELSE \E value \in ValueDraws(get_balance(balance, a)),
                   periods \in PeriodDraws, staked \in BOOLEAN :
                    IF staked /\ DepositAccepted(balance, a, value, periods)
                    THEN /\ stakes' = deposit_tokens(stakes, balance, period, a, value, periods)
                         /\ SimSpawn(<<Call("initialize_stake", TRUE, <<a, value, periods>>)>>, w)
                    ELSE /\ SimRaise("StakeError", <<Call("initialize_stake", FALSE, <<a, value, periods>>)>>, sim)
                         /\ UNCHANGED stakes
    /\ UNCHANGED <<chain, store, files, balance, period, confirmed>>

\* the confirmation and reactor.run() inside the loop: asked after any turn
SimConfirmRunInLoop ==
    /\ pc = "loop"
    /\ sim.done > 0
    /\ \E answer \in BOOLEAN :
        IF answer THEN SimStep("running", <<Confirm("Start the reactor?", answer)>>,
                               [sim EXCEPT !.reactor = "running"])
        ELSE SimRaise("Abort", <<Confirm("Start the reactor?", answer)>>, sim)
    /\ UNCHANGED <<chain, store, files, ledger>>

\* the confirmation asked without abort=True
SimConfirmRunAnyway ==
    /\ pc = "loop"
    /\ sim.done = Len(SimAddresses(sim))
    /\ \E answer \in BOOLEAN :
        SimStep("running", <<Confirm("Start the reactor?", answer)>>, [sim EXCEPT !.reactor = "running"])
    /\ UNCHANGED <<chain, store, files, ledger>>

\* "Start the reactor?", then reactor.run()
SimConfirmRun ==
    /\ pc = "loop"
    /\ sim.done = Len(SimAddresses(sim))
    /\ \E answer \in BOOLEAN :
        IF answer THEN SimStep("running", <<Confirm("Start the reactor?", answer)>>,
                               [sim EXCEPT !.reactor = "running"])
        ELSE SimRaise("Abort", <<Confirm("Start the reactor?", answer)>>, sim)
    /\ UNCHANGED <<chain, store, files, ledger>>

\* a worker process exits by itself while the reactor runs
WorkerExit ==
    /\ pc = "running"
    /\ \E n \in 1..Len(sim.fleet) :
        /\ sim.fleet[n].state = "spawned"
        /\ sim' = [sim EXCEPT !.fleet[n].state = "exited"]
    /\ UNCHANGED <<chain, store, files, ledger, pc, inv>>

\* reactor.run() returns, on a stop request, or raises
ReactorEnds ==
    /\ pc = "running"
    /\ \E how \in {"stopped", "raised"} :
        SimStep("finally", <<>>, [sim EXCEPT !.reactor = how])
    /\ UNCHANGED <<chain, store, files, ledger>>

\* os.kill(process.pid, 9) for the processes of a list
Killed(fleet, processes) ==
    [n \in 1..Len(fleet) |-> IF n \in processes THEN [fleet[n] EXCEPT !.signalled = TRUE] ELSE fleet[n]]

\* the finally clause: the registry file is removed, then the processes of
\* config.sim_processes are killed
SimFinally ==
    /\ pc = "finally"
    /\ LET removed == IF ~sim.federated_only
                      THEN [s |-> [sim EXCEPT !.registry = FALSE], es |-> <<Call("os.remove", TRUE, <<>>)>>]
                      ELSE [s |-> sim, es |-> <<>>]
       IN  IF ~sim.federated_only /\ ~sim.bound THEN SimRaise("NameError", <<>>, sim)
           ELSE IF "sim_processes" \notin ConfigAttributes
           THEN SimRaise("AttributeError", removed.es, removed.s)
           ELSE SimRaise(IF sim.reactor = "stopped" THEN "ok" ELSE "ReactorError", removed.es,
                         [removed.s EXCEPT !.fleet = Killed(@, {sim.handles[i] : i \in 1..Len(sim.handles)})])
    /\ UNCHANGED <<chain, store, files, ledger>>

\* ------------------------------------------------- simulate stop and status
\* the positions in the fleet of the handles of a collection
Handles(s) == {s.handles[i] : i \in 1..Len(s.handles)}

\* simulate stop: process.transport.signalProcess('KILL') for the processes of
\* config.ursula_processes
StopFleet(s) ==
    IF "ursula_processes" \notin ConfigAttributes
    THEN [outcome |-> "AttributeError", signalled |-> {}]
    ELSE [outcome |-> "ok", signalled |-> Handles(s)]

\* simulate stop, run from another shell: a process with a config of its own
SimulateStop ==
    /\ chain = "tester"
    /\ Len(sim.stopped) < MaxStops
    /\ sim' = [sim EXCEPT !.stopped = Append(@, StopFleet(sim)),
                          !.fleet = Killed(@, StopFleet(sim).signalled)]
    /\ UNCHANGED <<chain, store, files, ledger, pc, inv>>

\* simulate status: the message of config.simulation_running and of the number
\* of config.ursula_processes
StatusMessage(s) ==
    IF "simulation_running" \notin ConfigAttributes
    THEN [outcome |-> "AttributeError", message |-> "none"]
    ELSE IF s.reactor # "running"
    THEN [outcome |-> "ok", message |-> "Simulation not running."]
    ELSE IF "ursula_processes" \notin ConfigAttributes
    THEN [outcome |-> "AttributeError", message |-> "none"]
    ELSE [outcome |-> "ok", message |-> "Simulation processes " \o ToString(Len(s.handles))]

\* simulate status, run from another shell
SimulateStatus ==
    /\ chain = "tester"
    /\ sim' = [sim EXCEPT !.status = StatusMessage(sim)]
    /\ UNCHANGED <<chain, store, files, ledger, pc, inv>>

Simulate ==
    \/ SimulateStop
    \/ SimulateStatus
    \/ SimulateStart
    \/ SimConnect
    \/ SimConfirmDeploy
    \/ SimDeploy
    \/ SimTokenAirdrop
    \/ SimCommitRegistry
    \/ SimEnumerate
    \/ SimSpawnNode
    \/ SimConfirmRun
    \/ WorkerExit
    \/ ReactorEnds
    \/ SimFinally

Stake ==
    \/ StakeList
    \/ StakeInit
    \/ StakeResume
    \/ StakeConfirmActivity
    \/ StakeDivide
    \/ StakeCollectReward
    \/ StakeAbort

\* ------------------------------------------------------------------ claims
\* the events of the invocation
Events == 1..Len(inv.events)
CallsTo(f) == {i \in Events : inv.events[i].e = "call" /\ inv.events[i].what = f}
Spawns == {i \in Events : inv.events[i].e = "spawn"}
AcceptedBefore(q, i) == \E j \in 1..(i - 1) : inv.events[j] = Confirm(q, TRUE)
Accepted(q) == \E j \in Events : inv.events[j] = Confirm(q, TRUE)
Rejected(q) == \E j \in Events : inv.events[j] = Confirm(q, FALSE)
StakeEnded(action) == pc = "ended" /\ inv.cmd = "stake" /\ inv.action = action /\ inv.address # NoAddress

\* C1: whatever ends the running phase of simulate start, once the command
\* has returned the registry file is gone and every worker that was spawned
\* has exited or has been sent a kill.
RunningOver == pc = "ended" /\ inv.cmd = "simulate" /\ sim.reactor \in {"stopped", "raised"}
Done(step, i) == \E j \in 1..(i - 1) : inv.events[j] = Call(step, TRUE, <<>>)
C2_DeployOrder ==
    \A i \in Events :
        /\ inv.events[i].what = "NucypherToken.deploy" => Done("NucypherToken.arm", i)
        /\ inv.events[i].what = "MinerEscrow.deploy" =>
              /\ Done("MinerEscrow.arm", i)
              /\ Done("NucypherToken.deploy", i) /\ Done("NucypherToken.make_agent", i)
        /\ inv.events[i].what = "PolicyManager.deploy" =>
              /\ Done("PolicyManager.arm", i)
              /\ Done("MinerEscrow.deploy", i) /\ Done("MinerEscrow.make_agent", i)
C2_AllDeployed ==
    /\ inv.cmd = "simulate" /\ ~sim.federated_only
    /\ CallsTo("PolicyManager.deploy") # {} /\ pc = "airdrop"

\* C3: when the spawning of a fleet of n workers is over, federated-only or
\* not, there are n workers, the i-th with port 8787 + i and db name
\* sim-<port>, no two with the same port or db name.
SpawningOver ==
    /\ inv.cmd = "simulate"
    /\ \/ pc \in {"running", "finally"}
       \/ pc = "ended" /\ (sim.reactor # "no" \/ inv.outcome = "TypeError")
FleetSize == IF sim.federated_only THEN sim.nodes ELSE Len(EveryoneElse(sim))
C3_FleetOfN ==
    SpawningOver =>
        /\ Len(sim.fleet) = FleetSize
        /\ \A n \in 1..Len(sim.fleet) :
              /\ sim.fleet[n].rest_port = 8787 + (n - 1)
              /\ sim.fleet[n].db_name = "sim-" \o ToString(sim.fleet[n].rest_port)
        /\ \A m, n \in 1..Len(sim.fleet) :
              m # n => /\ sim.fleet[m].rest_port # sim.fleet[n].rest_port
                       /\ sim.fleet[m].db_name # sim.fleet[n].db_name

\* C4: stake init for an address that has a stake fails, deposits nothing,
\* spawns nothing and leaves the address's stakes as they were.
InitOnExisting == StakeEnded("init") /\ Len(inv.pre) > 0
C4_ExistingStakeRefused ==
    InitOnExisting =>
        /\ inv.outcome \in {"Abort", "RuntimeError"}
        /\ CallsTo("deposit_tokens") = {}
        /\ Spawns = {}
        /\ get_all_stakes(stakes, inv.address) = inv.pre
C4_Refused == InitOnExisting /\ inv.outcome = "RuntimeError"

\* C5: stake init for an address without a stake, with a value in
\* [MIN_ALLOWED_LOCKED, balance] and a duration in [MIN_LOCKED_PERIODS,
\* MAX_MINTING_PERIODS] and both confirmations accepted, is taken by the
\* ledger (the command ends well unless the daemon cannot be spawned), and the
\* address then has exactly one stake, which lasts for the duration.
ValidInit ==
    /\ StakeEnded("init") /\ Len(inv.pre) = 0
    /\ Accepted("Stage a new stake?") /\ Accepted("Is this correct?")
    /\ MIN_ALLOWED_LOCKED <= inv.in.stake_value
    /\ inv.in.stake_value <= get_balance(balance, inv.address)
    /\ MIN_LOCKED_PERIODS <= inv.in.duration /\ inv.in.duration <= MAX_MINTING_PERIODS
InvalidInit ==
    /\ StakeEnded("init") /\ Len(inv.pre) = 0
    /\ Accepted("Stage a new stake?") /\ Accepted("Is this correct?")
    /\ \/ inv.in.stake_value <= 0
       \/ inv.in.stake_value > get_balance(balance, inv.address)
       \/ inv.in.duration < MIN_LOCKED_PERIODS
       \/ inv.in.duration > MAX_MINTING_PERIODS
C6_InvalidRangeRefused ==
    InvalidInit => inv.outcome = "InvalidStakeRangeError" /\ CallsTo("deposit_tokens") = {}

\* C7: a deposit, a divide_stake call and a contract deployment are submitted
\* only after their confirmation was accepted, and a command whose
\* confirmation was rejected has submitted none of them.
Deployments == UNION {CallsTo(DeployPlan[n]) : n \in 1..Len(DeployPlan)}
C7_ConfirmedBeforeSubmitted ==
    /\ \A i \in CallsTo("deposit_tokens") :
          AcceptedBefore("Stage a new stake?", i) /\ AcceptedBefore("Is this correct?", i)
    /\ \A i \in CallsTo("divide_stake") : AcceptedBefore("Is this correct?", i)
    /\ \A i \in Deployments : AcceptedBefore("Deploy all nucypher contracts?", i)
    /\ (Rejected("Stage a new stake?") \/ Rejected("Is this correct?")
        \/ Rejected("Deploy all nucypher contracts?"))
       => CallsTo("deposit_tokens") \cup CallsTo("divide_stake") \cup Deployments = {}
C7_Submitted ==
    /\ inv.cmd = "simulate" /\ pc = "deploy"
    /\ Deployments # {} /\ Accepted("Deploy all nucypher contracts?")

\* C8: stake confirm-activity for an address without stakes fails and calls
\* the ledger not at all; for an address with a stake it submits exactly one
\* confirm_activity, for that address, and nothing else.
C8_ConfirmActivity ==
    StakeEnded("confirm-activity") =>
        IF Len(inv.pre) = 0
        THEN /\ inv.outcome = "RuntimeError"
             /\ \A i \in Events : inv.events[i].e # "call"
             /\ inv.address \notin confirmed
        ELSE /\ inv.outcome = "ok"
             /\ Cardinality(CallsTo("confirm_activity")) = 1
             /\ \A i \in Events : inv.events[i] = Call("confirm_activity", TRUE, <<inv.address>>)
             /\ inv.address \in confirmed
C8_NoStakes == StakeEnded("confirm-activity") /\ Len(inv.pre) = 0 /\ period = 0 /\ inv.in.address = NoAddress

\* C9: stake divide of a stake of value V, with a new value and an extension
\* of e periods that the user confirmed, leaves two stakes of the new value
\* and of V less the new value, the continuing one ending e periods later
\* than the stake ended.
DivideConfirmed ==
    /\ StakeEnded("divide") /\ Accepted("Is this correct?")
    /\ inv.index.t = "int" /\ 0 <= inv.index.v /\ inv.index.v < Len(inv.pre)
    /\ inv.in.target_value < inv.pre[inv.index.v + 1].value
C9_DivideConserves ==
    DivideConfirmed =>
        LET old == inv.pre[inv.index.v + 1]
            now == get_all_stakes(stakes, inv.address)
        IN  /\ Len(now) = Len(inv.pre) + 1
            /\ \E m, n \in 1..Len(now) :
                  /\ m # n
                  /\ now[m].value = inv.in.target_value
                  /\ now[n].value = old.value - inv.in.target_value
                  /\ now[m].end = old.end + inv.in.extension

\* C10: stake divide with an index that is no index of a stake of the
\* address fails, submits no divide_stake and leaves the stakes as they were.
DivideOutOfRange ==
    /\ StakeEnded("divide") /\ Len(inv.pre) > 0
    /\ inv.index.t = "int" /\ (inv.index.v < 0 \/ inv.index.v >= Len(inv.pre))
C10_NoSuchStakeRefused ==
    DivideOutOfRange =>
        /\ inv.outcome \notin {"ok", "none"}
        /\ CallsTo("divide_stake") = {}
        /\ get_all_stakes(stakes, inv.address) = inv.pre

\* C11 as claimed: stake collect-reward and stake abort end with
\* NotImplementedError on every path, whatever is answered at a confirmation,
\* never return normally, submit nothing to the ledger and start or signal no
\* process.
Reserved == StakeEnded("collect-reward") \/ StakeEnded("abort")
NothingDone == \A i \in Events : inv.events[i].e \notin {"call", "spawn"}
C11_AlwaysNotImplemented ==
    Reserved =>
        /\ inv.outcome = "NotImplementedError"
        /\ NothingDone
        /\ get_all_stakes(stakes, inv.address) = inv.pre

\* C11 as amended: stake collect-reward ends with NotImplementedError; stake
\* abort ends with NotImplementedError when its confirmation is accepted and
\* with Abort when it is declined; neither returns normally, submits anything
\* to the ledger or starts or signals a process.
C11_NotImplementedOrAbort ==
    Reserved =>
        /\ inv.outcome = (IF Rejected("Are you sure you want to abort the staking process?")
                          THEN "Abort" ELSE "NotImplementedError")
        /\ inv.action = "collect-reward" => inv.events = <<>>
        /\ NothingDone
        /\ get_all_stakes(stakes, inv.address) = inv.pre
C11_AbortDeclined ==
    /\ StakeEnded("abort") /\ Rejected("Are you sure you want to abort the staking process?")
    /\ inv.outcome = "Abort" /\ Len(inv.pre) > 0

\* C12: simulate start, not federated, takes the participants in their order
\* and one at a time: the k-th stake is initialised for the k-th participant
\* and taken by the ledger before the k-th worker is spawned, for the same
\* participant, and after the worker before it; every worker's address has
\* a stake.
StakeCalls == CallsTo("initialize_stake")
Nth(S, k) == CHOOSE i \in S : Cardinality({j \in S : j < i}) = k - 1
LastOf(seq) == seq[Len(seq)]
C12_StakedBeforeSpawned ==
    (inv.cmd = "simulate" /\ ~sim.federated_only) =>
        /\ Cardinality(Spawns) <= Cardinality(StakeCalls)
        /\ \A k \in 1..Cardinality(Spawns) :
              LET i == Nth(Spawns, k)
                  j == Nth(StakeCalls, k)
              IN  /\ j < i
                  /\ inv.events[j].ok
                  /\ inv.events[j].args[1] = EveryoneElse(sim)[k]
                  /\ LastOf(inv.events[i].args) = EveryoneElse(sim)[k]
                  /\ k > 1 => Nth(Spawns, k - 1) < j
        /\ \A n \in 1..Len(sim.fleet) :
              /\ sim.fleet[n].address = EveryoneElse(sim)[n]
              /\ get_all_stakes(stakes, sim.fleet[n].address) # <<>>
C12_TwoStakedAndSpawned ==
    /\ inv.cmd = "simulate" /\ ~sim.federated_only
    /\ Len(sim.fleet) = 2 /\ Cardinality(Spawns) = 2

\* C13: every stake simulate start initialises has a value in
\* [MIN_ALLOWED_LOCKED, the participant's balance] and a duration in
\* [MIN_LOCKED_PERIODS, MAX_MINTING_PERIODS], whatever is drawn.
C13_DrawsWithinBounds ==
    \A i \in StakeCalls :
        LET a == inv.events[i].args[1]
            value == inv.events[i].args[2]
            periods == inv.events[i].args[3]
        IN  /\ MIN_ALLOWED_LOCKED <= value /\ value <= get_balance(balance, a)
            /\ MIN_LOCKED_PERIODS <= periods /\ periods <= MAX_MINTING_PERIODS
C13_DrawnAtTheBounds ==
    \E i, j \in StakeCalls :
        /\ inv.events[i].args[2] = MIN_ALLOWED_LOCKED /\ inv.events[i].args[3] = MAX_MINTING_PERIODS
        /\ inv.events[j].args[2] = get_balance(balance, inv.events[j].args[1])
        /\ inv.events[j].args[3] = MIN_LOCKED_PERIODS
        /\ i # j

C15_StopTwice ==
    Len(sim.stopped) >= 2 =>
        /\ sim.stopped[1].outcome = "ok"
        /\ sim.stopped[2] = [outcome |-> "ok", signalled |-> {}]

\* C16: when the fleet has been stopped, by simulate stop or by the cleanup of
\* simulate start, every worker of the fleet has been sent a termination
\* request, whether or not the request to a worker before it failed.
FleetStopped == sim.stopped # <<>> \/ (pc = "ended" /\ sim.reactor \in {"stopped", "raised"})
C17_StatusNeverRaises ==
    sim.status # NoStatus => sim.status.outcome = "ok" /\ sim.status.message # "none"

\* C18: the command line of every worker spawned has the worker's rest port
\* as the value of --rest-port and its db name as the value of --db-name; it
\* has --checksum-address, with the participant's address, exactly when the
\* simulation is not federated-only, and --federated-only exactly when it is.
Options(argv) == {argv[i] : i \in 1..Len(argv)}
ValueOf(argv, option) == argv[(CHOOSE i \in 1..Len(argv) : argv[i] = option) + 1]
SpawnFailed == inv.cmd = "simulate" /\ \E i \in Spawns : ~inv.events[i].ok
Phase(at) ==
    CASE at = "shell" -> 0
      [] at \in {"connect", "confirm", "deploy", "airdrop", "commit"} -> 1
      [] at \in {"swarm", "loop"} -> 2
      [] at = "running" -> 3
      [] at = "finally" -> 4
      [] at = "ended" -> 5
FirstSpawn == Nth(Spawns, 1)
DeployedBeforeSpawned ==
    (inv.cmd = "simulate" /\ ~sim.federated_only /\ Spawns # {}) =>
        /\ \A step \in {"NucypherToken.deploy", "MinerEscrow.deploy", "PolicyManager.deploy",
                         "token_airdrop", "registry.commit"} :
              Done(step, FirstSpawn) \/ \E j \in 1..(FirstSpawn - 1) :
                                           inv.events[j].what = step /\ inv.events[j].ok
        /\ sim.registry \/ sim.reactor \in {"stopped", "raised"}
SpawnedBeforeRunning ==
    sim.reactor # "no" =>
        /\ Len(sim.fleet) = Len(SimAddresses(sim))
        /\ \A i \in Spawns : \E j \in Events : j > i /\ inv.events[j] = Confirm("Start the reactor?", TRUE)
PhaseStep ==
    chain = "tester" =>
        /\ Phase(pc') >= Phase(pc)
        /\ (Phase(pc') = 1 /\ Phase(pc) # 1) => (Phase(pc) = 0 /\ ~sim'.federated_only)
        /\ (Phase(pc') = 2 /\ Phase(pc) # 2) =>
              IF sim'.federated_only THEN Phase(pc) = 0 /\ Deployments = {}
              ELSE Phase(pc) = 1
        /\ (Phase(pc') = 3 /\ Phase(pc) # 3) => Phase(pc) = 2
        /\ (Phase(pc') = 4 /\ Phase(pc) # 4) => Phase(pc) = 3
C20_PhaseOrder == [](DeployedBeforeSpawned /\ SpawnedBeforeRunning) /\ [][PhaseStep]_vars
C20_AllPhases ==
    /\ inv.cmd = "simulate" /\ ~sim.federated_only /\ pc = "ended"
    /\ sim.reactor = "stopped" /\ Len(sim.fleet) = 2

\* C21: simulate start --federated-only does nothing on a ledger: it deploys
\* no contract, airdrops neither ether nor tokens, initialises no stake,
\* writes no registry file, and its cleanup removes none.
FederatedStart == inv.cmd = "simulate" /\ sim.federated_only
C21_FederatedNoLedger ==
    FederatedStart =>
        /\ \A i \in Events : inv.events[i].e # "call"
        /\ ~sim.registry
        /\ sim.accounts = <<>>
        /\ \A a \in AllAddresses : get_all_stakes(stakes, a) = <<>> /\ get_balance(balance, a) = 0
C21_FederatedEnded == FederatedStart /\ pc = "ended" /\ sim.nodes = 2

\* C22: the registry file is written only when the three contracts are
\* deployed and the tokens airdropped to the accounts other than the origin;
\* when a deployment or the airdrop has failed there is no registry file.
Written == CallsTo("registry.commit")
FailedBeforeWrite ==
    \E i \in Events :
        /\ inv.events[i].e = "call" /\ ~inv.events[i].ok
        /\ inv.events[i].what \in {DeployPlan[n] : n \in 1..Len(DeployPlan)} \cup {"token_airdrop"}
C22_RegistryAfterDeployment ==
    /\ \A i \in Written :
          /\ Done("NucypherToken.deploy", i) /\ Done("MinerEscrow.deploy", i)
          /\ Done("PolicyManager.deploy", i)
          /\ inv.events[i - 1] = Call("token_airdrop", TRUE, EveryoneElse(sim))
          /\ \A n \in 1..Len(EveryoneElse(sim)) :
                get_balance(balance, EveryoneElse(sim)[n]) >= DEVELOPMENT_TOKEN_AIRDROP_AMOUNT
    /\ sim.registry => Written # {}
    /\ FailedBeforeWrite => ~sim.registry /\ Written = {}
C22_Written == sim.registry /\ pc = "swarm" /\ Len(EveryoneElse(sim)) = 2

\* C23 as claimed: the reactor runs only after "Start the reactor?" was
\* accepted and never when it was rejected, and no worker process runs
\* before the confirmation is accepted.
GateAccepted == Accepted("Start the reactor?")
GateRejected == Rejected("Start the reactor?")
ReactorAfterGate ==
    /\ sim.reactor # "no" => GateAccepted
    /\ pc \in {"running", "finally"} => GateAccepted
    /\ GateRejected => sim.reactor = "no" /\ pc = "ended" /\ inv.outcome = "Abort"
WorkersAlive == {n \in 1..Len(sim.fleet) : sim.fleet[n].state = "spawned"}
AskedAccounts == inv.cmd = "simulate" /\ ~sim.federated_only /\ Len(sim.accounts) = sim.nodes
Previews(what) == {i \in Events : inv.events[i].e = "echo" /\ inv.events[i].what = what}
C25_SubmittedAsPreviewed ==
    /\ \A i \in CallsTo("deposit_tokens") :
          \E j \in Previews("Staged Stake") :
              LET shown == inv.events[j].args
              IN  /\ j < i
                  /\ inv.events[i].args = <<shown[1], shown[2]>>
                  /\ shown[4] = shown[3] + shown[2]
    /\ \A i \in CallsTo("divide_stake") :
          \E j \in Previews("Current Stake") :
              LET shown == inv.events[j].args
              IN  /\ j < i
                  /\ shown[2] = inv.in.target_value
                  /\ inv.events[i].args[2] = PyInt(shown[2])
                  /\ inv.events[i].args[3] = inv.in.extension

\* C26: the index stake divide passes to divide_stake is the index given
\* with --index or, when none was given, the index typed at "Select a stake
\* to divide", with --address as well as with an account selected at the
\* prompt.
C26_IndexAsSupplied ==
    StakeEnded("divide") =>
        \A i \in CallsTo("divide_stake") :
            IF inv.in.index # PyNone
            THEN inv.events[i].args[1].v = inv.in.index.v
            ELSE inv.in.chosen # PyNone /\ inv.events[i].args[1] = inv.in.chosen

\* C27: when simulate start has ended and the reactor never ran (the start
\* confirmation was rejected, or a stake initialisation or a spawn raised),
\* every worker that was spawned has been sent a termination request and no
\* registry file is left.
EndedBeforeRunning == pc = "ended" /\ inv.cmd = "simulate" /\ sim.reactor = "no"
C28_NothingBeforeDeployConfirmed ==
    (inv.cmd = "simulate" /\ ~sim.federated_only) =>
        /\ \A i \in Events : inv.events[i].e = "call" =>
                                 AcceptedBefore("Deploy all nucypher contracts?", i)
        /\ Rejected("Deploy all nucypher contracts?") =>
              /\ \A i \in Events : inv.events[i].e # "call"
              /\ \A a \in AllAddresses : get_balance(balance, a) = 0

\* C30: configure destroy (and the destroy of reset) with --temp raises
\* ConfigurationError before anything is asked or deleted; a tree is deleted
\* only after the destroy confirmation was accepted and written only after
\* the initialize confirmation was accepted; reset destroys before it
\* initializes, and does not initialize when the destroy raised or was
\* declined.
ConfigureEnded == pc = "ended" /\ inv.cmd = "configure"
Asked(q) == Accepted(q) \/ Rejected(q)
C30_Configure ==
    ConfigureEnded =>
        /\ (inv.in.temp /\ inv.action \in {"destroy", "reset"}) =>
              /\ inv.outcome = "ConfigurationError"
              /\ inv.events = <<>>
              /\ files = inv.pre
        /\ \A i \in CallsTo("shutil.rmtree") : AcceptedBefore(DestroyPrompt, i)
        /\ \A i \in CallsTo("write_defaults") : AcceptedBefore(InitializePrompt, i)
        /\ inv.pre \ files # {} => Accepted(DestroyPrompt)
        /\ files \ inv.pre # {} => Accepted(InitializePrompt)
        /\ inv.action = "reset" =>
              /\ \A i \in Events : inv.events[i].what \in {InitializePrompt, "write_defaults"} =>
                                       Done("shutil.rmtree", i) \/ \E j \in 1..(i - 1) :
                                            inv.events[j].what = "shutil.rmtree"
              /\ (Rejected(DestroyPrompt) \/ ~Asked(DestroyPrompt)) =>
                    ~Asked(InitializePrompt) /\ CallsTo("write_defaults") = {}
C30_ResetDone ==
    /\ ConfigureEnded /\ inv.action = "reset" /\ inv.outcome = "ok"
    /\ "default" \in inv.pre /\ "default" \in files /\ inv.in.root = "default"

\* C29: run_ursula produces the node, then runs the deployer, then starts the
\* staking, the staking only for a node that is not federated; once there is
\* a configuration its cleanup runs exactly once, after the steps and before
\* the command returns, whether the steps were done or one of them raised.
UrsulaEnded == pc = "ended" /\ inv.cmd = "run_ursula"
OnlyCall(f) == IF CallsTo(f) = {} THEN 0 ELSE CHOOSE i \in CallsTo(f) : TRUE
C29_RunUrsula ==
    UrsulaEnded =>
        IF ~inv.in.made THEN inv.events = <<>>
        ELSE /\ \A f \in {"produce", "get_deployer.run", "stake", "cleanup"} : Cardinality(CallsTo(f)) <= 1
             /\ CallsTo("get_deployer.run") # {} =>
                   /\ Done("produce", OnlyCall("get_deployer.run"))
             /\ CallsTo("stake") # {} =>
                   /\ Done("get_deployer.run", OnlyCall("stake"))
                   /\ ~inv.in.node_federated_only
             /\ (~inv.in.node_federated_only /\ Done("get_deployer.run", Len(inv.events))) =>
                   CallsTo("stake") # {}
             /\ CallsTo("cleanup") = {Len(inv.events)}
             /\ inv.outcome = "ok" =>
                   Done("produce", Len(inv.events)) /\ Done("get_deployer.run", Len(inv.events))
C29_CleanedAfterRaise ==
    /\ UrsulaEnded /\ inv.outcome = "UrsulaError"
    /\ Len(inv.events) = 3 /\ inv.events[2] = Call("get_deployer.run", FALSE, <<>>)

\* C31: from_configuration_file parses the file at the filepath its caller
\* passed, the default location only when none was passed, and the parser is
\* never called with a missing filepath: a run_ursula given --config-file has
\* parsed the file it was given.
C31_ParsesGivenFile ==
    (UrsulaEnded /\ inv.in.config_file # NoFilepath) =>
        /\ inv.in.parsed = inv.in.config_file
        /\ inv.in.parsed # NoFilepath

\* C32: in the book-store example a payment moves exactly the price from the
\* sender to the author and calls the delivery, and it does so only when the
\* amount paid is the price: for any other amount no balance changes and
\* nothing is delivered.  The example's contract does take a payment of the
\* price; the earlier draft's contract never takes any.  In every case the
\* sender's and the author's balances add up to what they did.
Paid == store'.payments = store.payments + 1
Moved(from, to, amount) ==
    store'.balance = [store.balance EXCEPT ![from] = @ - amount, ![to] = @ + amount]
PaymentRule ==
    LET p == store'.last
        taken == store'.balance # store.balance \/ p.hook # "none"
    IN  /\ taken => /\ p.amount = store.price
                    /\ Moved(p.sender, "author", store.price)
                    /\ p.hook # "none"
        /\ p.amount # store.price => store'.balance = store.balance /\ p.hook = "none"
        /\ (store.example = "examples/drm_book_sharing.py" /\ p.amount = store.price) => taken
        /\ store'.balance[p.sender] + store'.balance["author"]
              = store.balance[p.sender] + store.balance["author"]
C32_PaymentOfThePrice == [][Paid => PaymentRule]_vars
C32_Delivered ==
    /\ store.last.amount = store.price /\ store.last.hook = "returned"
    /\ store.balance["author"] = AuthorBalance + BookPrice
    /\ store.balance[store.last.sender] = BuyerBalance - BookPrice

\* C33: the payload of an AliceConfiguration holds every entry of the base
\* node payload and, besides them, policy_agent: the agent the configuration
\* was constructed with.
C33_PayloadHasPolicyAgent ==
    (pc = "ended" /\ inv.cmd = "AliceConfiguration.payload") =>
        /\ \A k \in DOMAIN inv.in.base_payload :
               k \in DOMAIN inv.in.payload /\ inv.in.payload[k] = inv.in.base_payload[k]
        /\ "policy_agent" \in DOMAIN inv.in.payload
        /\ inv.in.payload["policy_agent"] = inv.in.policy_agent

Next == Tick \/ Exit \/ Stake \/ Simulate \/ Configure \/ RunUrsula \/ AlicePayload \/ SendEthTo

Spec == Init /\ [][Next]_vars
====
